---- MODULE Spec2Model ----
(***************************************************************************)
(* A model of the generative-UI gateway (src/main.py, src/gemini_app.py):  *)
(* the history store, the /models URL normalisation, and the /generate     *)
(* pipeline with its remote call, sanitisation, artifact write and history *)
(* append.  Strings whose content the code inspects (URLs, remote content) *)
(* are sequences of one-character strings.                                 *)
(***************************************************************************)
EXTENDS Integers, Sequences, FiniteSets, TLC

VARIABLES
    variant,      \* which service file runs: "main" or "gemini"
    now,          \* wall clock, in seconds
    historyFile,  \* generated_logs/history.json: [kind, data]
    artifacts,    \* generated_logs/ui_<ts>.html: filename -> document
    pc,           \* per /generate request: "idle", "awaiting", "done"
    req,          \* per request: the UIRequest body
    baseUrl,      \* per request: base_url handed to AsyncOpenAI
    calls,        \* per request: chat.completions.create invocations
    outcome,      \* per request: what the awaited call produced
    resp,         \* per request: the HTTP response
    wrote,        \* per request: the artifact filename it wrote, or NoFile
    overlap,      \* pairs of requests that were awaiting at the same time
    hist0,        \* the history file at start-up
    appended,     \* entries passed to save_history directly, oldest first
    lastLoad,     \* what the last GET /history returned
    mPc,          \* /models request: "idle", "awaiting", "done"
    mReq,         \* /models query parameters
    mBase,        \* base_url handed to AsyncOpenAI by get_models
    mResp,        \* /models response
    sPc,          \* sanitisation alone: "input", "done"
    sIn,          \* the remote message content
    sOut          \* the sanitised html

vars == <<variant, now, historyFile, artifacts, pc, req, baseUrl, calls,
          outcome, resp, wrote, overlap, hist0, appended, lastLoad,
          mPc, mReq, mBase, mResp, sPc, sIn, sOut>>

genVars == <<pc, req, baseUrl, calls, outcome, resp, wrote, overlap, artifacts>>
modelsVars == <<mPc, mReq, mBase, mResp>>
storeVars == <<appended, lastLoad>>
sanVars == <<sPc, sIn, sOut>>

(***************************************************************************)
(* Bounds.                                                                 *)
(***************************************************************************)
NumReqs == 2
MaxClock == 1
MaxAppends == 102
MaxPieces == 3

Reqs == 1..NumReqs

(***************************************************************************)
(* Python str operations on character sequences.                           *)
(***************************************************************************)
startswith(s, p) == Len(s) >= Len(p) /\ SubSeq(s, 1, Len(p)) = p

endswith(s, p) == Len(s) >= Len(p) /\ SubSeq(s, Len(s) - Len(p) + 1, Len(s)) = p

contains(s, p) == \E i \in 1..(Len(s) - Len(p) + 1) : SubSeq(s, i, i + Len(p) - 1) = p

RECURSIVE replace(_, _)
\* s.replace(old, ""): non-overlapping occurrences removed, left to right
replace(s, old) ==
    IF s = <<>> THEN <<>>
    ELSE IF startswith(s, old) THEN replace(SubSeq(s, Len(old) + 1, Len(s)), old)
    ELSE <<Head(s)>> \o replace(Tail(s), old)

Whitespace == {" ", "\n", "\t"}

RECURSIVE lstrip(_)
lstrip(s) == IF s # <<>> /\ Head(s) \in Whitespace THEN lstrip(Tail(s)) ELSE s

RECURSIVE rstrip(_)
rstrip(s) ==
    IF s # <<>> /\ s[Len(s)] \in Whitespace THEN rstrip(SubSeq(s, 1, Len(s) - 1)) ELSE s

strip(s) == rstrip(lstrip(s))

(***************************************************************************)
(* String literals of the source.                                          *)
(***************************************************************************)
Http == <<"h", "t", "t", "p">>
HttpScheme == <<"h", "t", "t", "p", ":", "/", "/">>
Ttp == <<"t", "t", "p">>
Slash == <<"/">>
OpenaiSeg == <<"/", "o", "p", "e", "n", "a", "i", "/">>
OpenaiTail == <<"o", "p", "e", "n", "a", "i", "/">>
GeminiHost == <<"g", "e", "n", "e", "r", "a", "t", "i", "v", "e",
                "l", "a", "n", "g", "u", "a", "g", "e", ".",
                "g", "o", "o", "g", "l", "e", "a", "p", "i", "s", ".",
                "c", "o", "m">>
\* the backquote character (U+0060), which the TLA+ lexer does not accept in a string
BQ == "bq"
FenceHtml == <<BQ, BQ, BQ, "h", "t", "m", "l">>
Fence == <<BQ, BQ, BQ>>

DefaultBase == <<"(openai default base url)">>
NoFile == <<>>

\* f"ui_{file_timestamp}.html"
FileName(ts) == <<"ui_", ts, ".html">>

(***************************************************************************)
(* HistoryStore: load_history / save_history.                              *)
(* The file is [kind, data]: "missing" (no file), "corrupt" (unreadable or *)
(* not JSON), "other" (valid JSON that is not an array), "list".           *)
(***************************************************************************)
HistoryCap == 100

MissingFile == [kind |-> "missing", data |-> <<>>]
CorruptFile == [kind |-> "corrupt", data |-> <<>>]
OtherFile == [kind |-> "other", data |-> <<>>]
ListFile(h) == [kind |-> "list", data |-> h]

\* os.path.exists(HISTORY_FILE)
exists(f) == f.kind # "missing"

\* open(...) and json.load(f): raises on unreadable or non-JSON content
json_load(f) ==
    IF f.kind = "corrupt" THEN [raised |-> TRUE, islist |-> FALSE, val |-> <<>>]
    ELSE [raised |-> FALSE, islist |-> f.kind = "list", val |-> f.data]

EmptyLog == [raised |-> FALSE, islist |-> TRUE, val |-> <<>>]

load_history_uncaught(f) == IF ~exists(f) THEN EmptyLog ELSE json_load(f)

load_history(f) ==
    IF ~exists(f) THEN EmptyLog
    ELSE LET r == json_load(f) IN IF r.raised THEN EmptyLog ELSE r

\* history[:n]
Take(h, n) == SubSeq(h, 1, IF Len(h) < n THEN Len(h) ELSE n)

save_history_no_read(f, entry) == [raised |-> FALSE, file |-> ListFile(<<entry>>)]

save_history_append_last(f, entry) ==
    LET history == load_history(f) IN
    IF history.raised \/ ~history.islist THEN [raised |-> TRUE, file |-> f]
    ELSE [raised |-> FALSE, file |-> ListFile(Take(history.val \o <<entry>>, HistoryCap))]

\* history.insert(0, entry) raises AttributeError on a value that is no list;
\* the file is opened for writing only after it
save_history(f, entry) ==
    LET history == load_history(f) IN
    IF history.raised \/ ~history.islist THEN [raised |-> TRUE, file |-> f]
    ELSE [raised |-> FALSE, file |-> ListFile(Take(<<entry>> \o history.val, HistoryCap))]

(***************************************************************************)
(* get_models: the URL correction applied to llm_url.                      *)
(***************************************************************************)
resolve(llm_url) ==
    IF llm_url = <<>> THEN llm_url
    ELSE
        LET u1 == IF ~startswith(llm_url, Http) THEN HttpScheme \o llm_url ELSE llm_url
            u2 == IF startswith(u1, Ttp) THEN <<"h">> \o u1 ELSE u1
        IN  IF contains(u2, GeminiHost) /\ ~contains(u2, OpenaiSeg)
            THEN (IF ~endswith(u2, Slash) THEN u2 \o Slash ELSE u2) \o OpenaiTail
            ELSE u2

(***************************************************************************)
(* generate_ui: the pieces between its suspension points.                  *)
(***************************************************************************)
ConfigRejected_never(v, rq) == FALSE

\* the detail of the 400
RejectionDetail(v) ==
    IF v = "main" THEN "API Key or Local LLM URL is required."
    ELSE "Gemini API Key is required."

\* the 400 check at the head of generate_ui
ConfigRejected(v, rq) ==
    IF v = "main" THEN rq.api_key = "" /\ rq.llm_url = <<>>
    ELSE rq.api_key = ""

\* the base_url argument of AsyncOpenAI(...)
ClientBaseUrl(v, rq) ==
    IF v = "main" THEN (IF rq.llm_url # <<>> THEN rq.llm_url ELSE DefaultBase)
    ELSE rq.llm_url

SanitizeEnds(content) ==
    LET t == strip(content)
        a == IF startswith(t, FenceHtml) THEN SubSeq(t, Len(FenceHtml) + 1, Len(t))
             ELSE IF startswith(t, Fence) THEN SubSeq(t, Len(Fence) + 1, Len(t))
             ELSE t
        b == IF endswith(a, Fence) THEN SubSeq(a, 1, Len(a) - Len(Fence)) ELSE a
    IN  strip(b)

\* .strip(), then .replace(FenceHtml, "").replace(Fence, "").strip()
Sanitize(content) == strip(replace(replace(strip(content), FenceHtml), Fence))

\* the standalone document written to ui_<ts>.html
Document(v, html) ==
    IF v = "main" THEN <<"<!DOCTYPE html> head[tailwind, Inter] <body p-10>">> \o html \o <<"</body></html>">>
    ELSE <<"<!DOCTYPE html> head[tailwind] <body>">> \o html \o <<"</body></html>">>

WriteFile_skipped(arts, name, doc) == arts

\* with open(filepath, "w") as f: f.write(...)
WriteFile(arts, name, doc) ==
    [n \in DOMAIN arts \cup {name} |-> IF n = name THEN doc ELSE arts[n]]

Response(st, h, d) == [status |-> st, html |-> h, detail |-> d]
NoResponse == Response(0, <<>>, "")

HistoryEntry_time_as_filename(rq, filename, time) ==
    [intent |-> rq.user_action, filename |-> <<time>>, time |-> time, model |-> rq.model]

\* the dict handed to save_history
HistoryEntry(rq, filename, time) ==
    [intent |-> rq.user_action, filename |-> filename, time |-> time, model |-> rq.model]

CaughtGeneric(msg) == Response(500, <<>>, "Internal Server Error")

\* except Exception as e: raise HTTPException(status_code=500, detail=str(e))
Caught(msg) == Response(500, <<>>, msg)

Unchanged(hf, arts) == [historyFile |-> hf, artifacts |-> arts, wrote |-> NoFile]

\* generate_ui from the return of the awaited create(...) to its own return
FinishGenerate(v, rq, out, t1, t2, hf, arts) ==
    IF out.kind = "error" THEN [resp |-> Caught(out.msg)] @@ Unchanged(hf, arts)
    ELSE IF out.kind = "nocontent"
    THEN [resp |-> Caught("'NoneType' object has no attribute 'strip'")] @@ Unchanged(hf, arts)
    ELSE
        LET generated_html == Sanitize(out.text)
            filename == FileName(t2)
            written == WriteFile(arts, filename, Document(v, generated_html))
            sv == save_history(hf, HistoryEntry(rq, filename, t1))
        IN  IF sv.raised
            THEN [resp |-> Caught("object has no attribute 'insert'"),
                  historyFile |-> hf, artifacts |-> written, wrote |-> filename]
            ELSE [resp |-> Response(200, generated_html, ""),
                  historyFile |-> sv.file, artifacts |-> written, wrote |-> filename]


(***************************************************************************)
(* Inputs.                                                                 *)
(***************************************************************************)
ApiKeys == {"", "sk"}

HostAB == <<"a", ".", "b">>
GenUrls == {<<>>, HostAB}

\* what the remote model answers in the service runs: a fenced block with a
\* fence marker inside its body
Contents == { FenceHtml \o <<"\n", "x">> \o Fence \o <<"y", "\n">> \o Fence \o <<"\n">> }

FailMsgs == {"Error code: 401"}

UrlPrefixes ==
    { <<>>, <<"t", "t", "p", ":", "/", "/">>, <<"t", "t", "p", "s", ":", "/", "/">>,
      HttpScheme, <<"h", "t", "t", "p", "s", ":", "/", "/">> }
UrlHosts == {HostAB, GeminiHost}
UrlPaths ==
    { <<>>, Slash, <<"/", "v", "1">>, <<"/", "v", "1", "/">>,
      <<"/", "o", "p", "e", "n", "a", "i">>, <<"/", "v", "1">> \o OpenaiSeg }
ModelUrls == {<<>>} \cup {p \o h \o t : p \in UrlPrefixes, h \in UrlHosts, t \in UrlPaths}

ModelErrors ==
    { <<"Connection", "error.">>, <<"Error", "code:", "404">>,
      <<"Invalid", "URL">>, <<"base_url", "is", "not", "valid">> }

OldEntry(i) == [intent |-> 0, filename |-> FileName(0 - i), time |-> 0, model |-> "old"]
FullLog == [i \in 1..HistoryCap |-> OldEntry(i)]
InitFiles == {MissingFile, CorruptFile, OtherFile, ListFile(<<>>), ListFile(FullLog)}

\* the n-th entry handed to save_history directly
DirectEntry(n) == [intent |-> n, filename |-> FileName(n), time |-> n, model |-> "m"]

NoRequest == [user_action |-> 0, api_key |-> "", llm_url |-> <<>>, model |-> ""]
NoOutcome == [kind |-> "none", text |-> <<>>, msg |-> ""]
NoModelsRequest == [llm_url |-> <<>>, api_key |-> ""]
NoModelsResponse == [status |-> 0, detail |-> <<>>]

(***************************************************************************)
(* Initial state: the services start with whatever history.json the        *)
(* directory holds and no request in flight.                               *)
(***************************************************************************)
Init ==
    /\ variant \in {"main", "gemini"}
    /\ now = 0
    /\ historyFile \in InitFiles
    /\ hist0 = historyFile
    /\ artifacts = <<>>
    /\ pc = [r \in Reqs |-> "idle"]
    /\ req = [r \in Reqs |-> NoRequest]
    /\ baseUrl = [r \in Reqs |-> <<>>]
    /\ calls = [r \in Reqs |-> 0]
    /\ outcome = [r \in Reqs |-> NoOutcome]
    /\ resp = [r \in Reqs |-> NoResponse]
    /\ wrote = [r \in Reqs |-> NoFile]
    /\ overlap = {}
    /\ appended = <<>>
    /\ lastLoad = EmptyLog
    /\ mPc = "idle"
    /\ mReq = NoModelsRequest
    /\ mBase = <<>>
    /\ mResp = NoModelsResponse
    /\ sPc = "input"
    /\ sIn = <<>>
    /\ sOut = <<>>

(***************************************************************************)
(* POST /generate.  A handler runs without interruption between its        *)
(* awaits; the only await is the chat-completion call.                     *)
(***************************************************************************)
\* the handler from its entry to the await (or to the 400); requests are
\* numbered in the order they arrive
GenerateStart(r, k, u) ==
    /\ pc[r] = "idle"
    /\ \A q \in Reqs : q < r => pc[q] # "idle"
    /\ LET rq == [user_action |-> r, api_key |-> k, llm_url |-> u, model |-> "m"] IN
        /\ req' = [req EXCEPT ![r] = rq]
        /\ IF ConfigRejected(variant, rq)
           THEN /\ resp' = [resp EXCEPT ![r] = Response(400, <<>>, RejectionDetail(variant))]
                /\ pc' = [pc EXCEPT ![r] = "done"]
                /\ UNCHANGED <<baseUrl, calls, overlap>>
           ELSE /\ baseUrl' = [baseUrl EXCEPT ![r] = ClientBaseUrl(variant, rq)]
                /\ calls' = [calls EXCEPT ![r] = calls[r] + 1]
                /\ pc' = [pc EXCEPT ![r] = "awaiting"]
                /\ overlap' = overlap \cup {{r, q} : q \in {x \in Reqs : pc[x] = "awaiting"}}
                /\ UNCHANGED resp
    /\ UNCHANGED <<variant, now, historyFile, artifacts, outcome, wrote, hist0>>
    /\ UNCHANGED storeVars /\ UNCHANGED modelsVars /\ UNCHANGED sanVars

\* the handler from the end of the await to its return
\* (the two datetime.now() calls fall in the same second)
Resume(r, out) ==
    /\ pc[r] = "awaiting"
    /\ LET fin == FinishGenerate(variant, req[r], out, now, now, historyFile, artifacts) IN
        /\ resp' = [resp EXCEPT ![r] = fin.resp]
        /\ historyFile' = fin.historyFile
        /\ artifacts' = fin.artifacts
        /\ wrote' = [wrote EXCEPT ![r] = fin.wrote]
    /\ outcome' = [outcome EXCEPT ![r] = out]
    /\ UNCHANGED overlap
    /\ pc' = [pc EXCEPT ![r] = "done"]
    /\ UNCHANGED <<variant, now, req, baseUrl, calls, hist0>>
    /\ UNCHANGED storeVars /\ UNCHANGED modelsVars /\ UNCHANGED sanVars

\* create(...) returns a completion with content
RemoteSucceeds(r) ==
    \E text \in Contents :
        Resume(r, [kind |-> "content", text |-> text, msg |-> ""])

\* create(...) returns a completion without choices or content
RemoteMalformed(r) ==
    Resume(r, [kind |-> "nocontent", text |-> <<>>, msg |-> ""])

\* create(...) raises
RemoteFails(r) ==
    \E msg \in FailMsgs : Resume(r, [kind |-> "error", text |-> <<>>, msg |-> msg])

Tick ==
    /\ now < MaxClock
    /\ now' = now + 1
    /\ UNCHANGED <<variant, historyFile, hist0>>
    /\ UNCHANGED genVars /\ UNCHANGED storeVars /\ UNCHANGED sanVars /\ UNCHANGED modelsVars /\ UNCHANGED sanVars

Next ==
    \/ \E r \in Reqs, k \in ApiKeys, u \in GenUrls : GenerateStart(r, k, u)
    \/ \E r \in Reqs : RemoteSucceeds(r)
    \/ \E r \in Reqs : RemoteMalformed(r)
    \/ \E r \in Reqs : RemoteFails(r)
    \/ Tick

Spec == Init /\ [][Next]_vars


(***************************************************************************)
(* HistoryStore driven directly and sequentially: save_history called with *)
(* distinct entries, GET /history in between.                              *)
(***************************************************************************)
SaveHistory ==
    /\ Len(appended) < MaxAppends
    /\ LET entry == DirectEntry(Len(appended) + 1)
           sv == save_history(historyFile, entry)
       IN  /\ historyFile' = sv.file
           /\ appended' = IF sv.raised THEN appended ELSE Append(appended, entry)
    /\ UNCHANGED <<variant, now, hist0, lastLoad>>
    /\ UNCHANGED genVars /\ UNCHANGED modelsVars /\ UNCHANGED sanVars

\* GET /history
get_history ==
    /\ lastLoad' = load_history(historyFile)
    /\ UNCHANGED <<variant, now, historyFile, hist0, appended>>
    /\ UNCHANGED genVars /\ UNCHANGED modelsVars /\ UNCHANGED sanVars

NextHistory == SaveHistory \/ get_history

SpecHistory == Init /\ [][NextHistory]_vars

(***************************************************************************)
(* GET /models.                                                            *)
(***************************************************************************)
\* get_models from its entry to the await (or to the 400)
ModelsStart(u, k) ==
    /\ mPc = "idle"
    /\ mReq' = [llm_url |-> u, api_key |-> k]
    /\ IF u = <<>> /\ k = ""
       THEN /\ mResp' = [status |-> 400, detail |-> <<"LLM URL or API Key is required.">>]
            /\ mPc' = "done"
            /\ UNCHANGED mBase
       ELSE /\ mBase' = IF resolve(u) # <<>> THEN resolve(u) ELSE DefaultBase
            /\ mPc' = "awaiting"
            /\ UNCHANGED mResp
    /\ UNCHANGED <<variant, now, historyFile, hist0>>
    /\ UNCHANGED genVars /\ UNCHANGED storeVars /\ UNCHANGED sanVars

\* models.list() returns
ModelsListed ==
    /\ mPc = "awaiting"
    /\ mResp' = [status |-> 200, detail |-> <<>>]
    /\ mPc' = "done"
    /\ UNCHANGED <<mReq, mBase, variant, now, historyFile, hist0>>
    /\ UNCHANGED genVars /\ UNCHANGED storeVars /\ UNCHANGED sanVars

\* models.list() or the client constructor raises
ModelsFailed(error_msg) ==
    /\ mPc = "awaiting"
    /\ mResp' = IF \/ contains(error_msg, <<"base_url">>)
                   \/ contains(error_msg, <<"URL">>)
                   \/ contains(error_msg, <<"404">>)
                THEN [status |-> 400, detail |-> <<"Invalid LLM URL:">> \o error_msg]
                ELSE [status |-> 500, detail |-> error_msg]
    /\ mPc' = "done"
    /\ UNCHANGED <<mReq, mBase, variant, now, historyFile, hist0>>
    /\ UNCHANGED genVars /\ UNCHANGED storeVars /\ UNCHANGED sanVars

\* the next /models request arrives
ModelsNext ==
    /\ mPc = "done"
    /\ mPc' = "idle"
    /\ mReq' = NoModelsRequest
    /\ mBase' = <<>>
    /\ mResp' = NoModelsResponse
    /\ UNCHANGED <<variant, now, historyFile, hist0>>
    /\ UNCHANGED genVars /\ UNCHANGED storeVars /\ UNCHANGED sanVars

NextModels ==
    \/ \E u \in ModelUrls, k \in ApiKeys : ModelsStart(u, k)
    \/ ModelsListed
    \/ \E e \in ModelErrors : ModelsFailed(e)
    \/ ModelsNext

SpecModels == Init /\ [][NextModels]_vars


(***************************************************************************)
(* The sanitisation step of generate_ui on its own, over message contents  *)
(* put together from fence markers, their fragments, text and whitespace.  *)
(***************************************************************************)
Pieces ==
    { <<BQ>>, <<BQ, BQ>>, Fence, FenceHtml, <<"h", "t", "m", "l">>, <<"x">>, <<" ">>, <<"\n">> }

RECURSIVE Texts(_)
Texts(n) == IF n = 0 THEN {<<>>} ELSE LET T == Texts(n - 1) IN T \cup {p \o t : p \in Pieces, t \in T}

\* the completion arrives with some content
SanitizeInput(text) ==
    /\ sPc = "input"
    /\ sIn = <<>>
    /\ sIn' = text
    /\ UNCHANGED <<sPc, sOut>>
    /\ UNCHANGED <<variant, now, historyFile, hist0>>
    /\ UNCHANGED genVars /\ UNCHANGED storeVars /\ UNCHANGED modelsVars

\* generated_html = content.strip(), then the clean-up
SanitizeApply ==
    /\ sPc = "input"
    /\ sOut' = Sanitize(sIn)
    /\ sPc' = "done"
    /\ UNCHANGED sIn
    /\ UNCHANGED <<variant, now, historyFile, hist0>>
    /\ UNCHANGED genVars /\ UNCHANGED storeVars /\ UNCHANGED modelsVars

NextSanitize ==
    \/ \E text \in Texts(MaxPieces) : SanitizeInput(text)
    \/ SanitizeApply

SpecSanitize == Init /\ [][NextSanitize]_vars


(***************************************************************************)
(* Properties.                                                             *)
(***************************************************************************)
Min(a, b) == IF a < b THEN a ELSE b

HasEntry(hf, r) == hf.kind = "list" /\ \E i \in DOMAIN hf.data : hf.data[i].intent = r

StartedEmpty == hist0 \in {MissingFile, ListFile(<<>>)}

\* C1: from an empty log and under sequential access, after n save_history
\* calls with distinct entries load_history returns exactly the min(n, 100)
\* most recently appended entries, newest first; the persisted log never
\* holds more than 100 entries.
C1_NewestHundred ==
    /\ Len(historyFile.data) <= HistoryCap
    /\ StartedEmpty =>
        LET n == Len(appended)
            got == load_history(historyFile)
        IN  /\ ~got.raised /\ got.islist
            /\ Len(got.val) = Min(n, HistoryCap)
            /\ \A i \in 1..Len(got.val) : got.val[i] = appended[n - i + 1]

C1_Witness ==
    /\ StartedEmpty
    /\ Len(appended) = HistoryCap + 1
    /\ Len(historyFile.data) = HistoryCap
    /\ \A i \in DOMAIN historyFile.data : historyFile.data[i] # appended[1]
    /\ historyFile.data[HistoryCap] = appended[2]

Unreadable(f) == f.kind \in {"missing", "corrupt"}

NoCredentials(rq) == rq.api_key = "" /\ rq.llm_url = <<>>

\* C2: a /generate request with empty api_key and empty llm_url ends with a
\* 400 and, from its arrival to its response, makes no chat-completion call,
\* writes no artifact and leaves the history log unchanged.
C2_RejectedBeforeAnyEffect ==
    /\ [](\A r \in Reqs : pc[r] # "idle" /\ NoCredentials(req[r]) =>
            /\ pc[r] = "done" /\ resp[r].status = 400
            /\ calls[r] = 0 /\ wrote[r] = NoFile
            /\ ~HasEntry(historyFile, r))
    /\ [][\A r \in Reqs : pc[r] = "idle" /\ pc'[r] # "idle" /\ NoCredentials(req'[r]) =>
            artifacts' = artifacts /\ historyFile' = historyFile]_vars

C2_Witness ==
    \E r \in Reqs, q \in Reqs :
        /\ pc[r] = "done" /\ NoCredentials(req[r]) /\ resp[r].status = 400
        /\ q # r /\ resp[q].status = 200

\* C3: every /generate request answered 200 returns the sanitised remote
\* content and has, when it returns, put a new entry at the front of the log
\* whose filename is the artifact file this request wrote.
C3_SuccessRecorded ==
    [][\A r \in Reqs : pc[r] = "awaiting" /\ resp'[r].status = 200 =>
        /\ resp'[r].html = Sanitize(outcome'[r].text)
        /\ historyFile'.kind = "list" /\ historyFile'.data # <<>>
        /\ Head(historyFile'.data).intent = r
        /\ Head(historyFile'.data).filename = wrote'[r]
        /\ Tail(historyFile'.data) = Take(load_history(historyFile).val, HistoryCap - 1)
        /\ wrote'[r] \in DOMAIN artifacts'
        /\ artifacts'[wrote'[r]] = Document(variant, resp'[r].html)]_vars

C3_Witness ==
    \E r \in Reqs :
        /\ resp[r].status = 200 /\ resp[r].html # outcome[r].text
        /\ Head(historyFile.data).intent = r
        /\ Len(historyFile.data) = HistoryCap
        /\ wrote[r] \in DOMAIN artifacts

\* C6: every /generate request makes at most one chat-completion call; when
\* the call fails the request ends with a 500 carrying the raw message, and
\* no second call is made.
C6_SingleCallFailFast ==
    \A r \in Reqs :
        /\ calls[r] <= 1
        /\ pc[r] = "awaiting" => calls[r] = 1
        /\ outcome[r].kind = "error" =>
            /\ pc[r] = "done" /\ calls[r] = 1
            /\ resp[r] = Response(500, <<>>, outcome[r].msg)
        /\ outcome[r].kind = "nocontent" =>
            pc[r] = "done" /\ calls[r] = 1 /\ resp[r].status = 500

C6_Witness ==
    \E r \in Reqs, q \in Reqs :
        /\ outcome[r].kind = "error" /\ resp[r].detail = "Error code: 401"
        /\ outcome[q].kind = "nocontent" /\ pc[q] = "done"


Content(text) == [kind |-> "content", text |-> text, msg |-> ""]

\* r1's handler resumes and returns, then r2's: both answered 200 and the log
\* lacks the entry of one of them
LostAfter(r1, r2) ==
    \E c1 \in Contents, c2 \in Contents, ta \in now..MaxClock :
        \E tb \in ta..MaxClock :
            LET f1 == FinishGenerate(variant, req[r1], Content(c1), ta, ta,
                                     historyFile, artifacts)
                f2 == FinishGenerate(variant, req[r2], Content(c2), tb, tb,
                                     f1.historyFile, f1.artifacts)
            IN  /\ f1.resp.status = 200 /\ f2.resp.status = 200
                /\ ~(HasEntry(f2.historyFile, r1) /\ HasEntry(f2.historyFile, r2))

\* C5 as claimed: when two /generate requests are in flight at the same time,
\* their history appends can interleave so that both complete successfully
\* and the log holds the entry of only one of them.
C5_LostUpdatePossible ==
    \A r1 \in Reqs, r2 \in Reqs :
        /\ r1 # r2 /\ pc[r1] = "awaiting" /\ pc[r2] = "awaiting"
        /\ load_history(historyFile).islist
        => LostAfter(r1, r2) \/ LostAfter(r2, r1)

\* C5 as amended: the appends of two requests that were in flight at the
\* same time do not interleave; once both have returned 200 the log holds
\* both entries.
C5_NoLostUpdate ==
    \A r1 \in Reqs, r2 \in Reqs :
        {r1, r2} \in overlap /\ resp[r1].status = 200 /\ resp[r2].status = 200 =>
            HasEntry(historyFile, r1) /\ HasEntry(historyFile, r2)

C5_Witness ==
    \E r1 \in Reqs, r2 \in Reqs :
        /\ {r1, r2} \in overlap /\ r1 # r2
        /\ resp[r1].status = 200 /\ resp[r2].status = 200
        /\ wrote[r1] = wrote[r2]
        /\ Len(historyFile.data) = 2

\* C7 as claimed: in /generate a non-empty llm_url reaches the client as the
\* URL that the /models normalisation makes of it.
C7_GenerateNormalizes ==
    \A r \in Reqs :
        calls[r] > 0 /\ req[r].llm_url # <<>> => baseUrl[r] = resolve(req[r].llm_url)

GeminiSuffixes == {<<>>, OpenaiTail, Slash \o OpenaiTail}

\* C8 as claimed: a URL that begins with "ttp" comes out of the /models
\* normalisation as "h" followed by the URL (and then at most the Gemini
\* path suffix).
C8_TtpRepaired ==
    mPc # "idle" /\ startswith(mReq.llm_url, Ttp) =>
        \E suffix \in GeminiSuffixes : mBase = <<"h">> \o mReq.llm_url \o suffix

\* C9 as claimed: sanitisation removes a fence marker only at the very start
\* or end of the trimmed text, once, and leaves any other occurrence in the
\* returned html.
C9_OnlyEndsStripped == sPc = "done" => sOut = SanitizeEnds(sIn)

\* C9 as amended: sanitisation removes every occurrence of the fence
\* markers, wherever it sits, so the returned html holds no fence marker and
\* no surrounding whitespace; content without a fence marker is returned
\* trimmed and otherwise untouched.
C9_AllFencesRemoved ==
    sPc = "done" =>
        /\ ~contains(sOut, Fence)
        /\ sOut = strip(sOut)
        /\ Len(sOut) <= Len(sIn)
        /\ ~contains(sIn, Fence) => sOut = strip(sIn)

C9_Witness ==
    /\ sPc = "done"
    /\ sIn = <<"x">> \o Fence \o <<"x">>
    /\ sOut = <<"x", "x">>

ArtifactsExist ==
    historyFile.kind = "list" =>
        \A i \in DOMAIN historyFile.data :
            historyFile.data[i].intent \in Reqs =>
                historyFile.data[i].filename \in DOMAIN artifacts

\* C10: every log entry appended by /generate names an artifact file that
\* exists, and a /generate request whose remote call fails leaves the
\* artifact directory and the history log unchanged.
C10_EntriesHaveArtifacts ==
    /\ []ArtifactsExist
    /\ [][\A r \in Reqs :
            pc[r] = "awaiting" /\ outcome'[r].kind \in {"error", "nocontent"} =>
                artifacts' = artifacts /\ historyFile' = historyFile]_vars

C10_Witness ==
    \E r \in Reqs, q \in Reqs :
        /\ HasEntry(historyFile, r) /\ wrote[r] \in DOMAIN artifacts
        /\ outcome[q].kind = "error" /\ pc[q] = "done" /\ {q, r} \in overlap


====
